---- MODULE Spec2Model ----
(***************************************************************************)
(* Model of the Deye SUN micro-inverter poll coordinator                   *)
(* (custom_components/deye_sun_microinverter/__init__.py).                 *)
(*                                                                         *)
(* Representation.                                                         *)
(*  - A text (Python str) is a sequence of one-character strings.          *)
(*  - Python None is the value None below; it differs from every text      *)
(*    because its only element is not a single character.                  *)
(*  - A Python float is a fixed-point integer counting tenths:             *)
(*    150.0 is 1500 and 4.2 is 42.                                         *)
(*  - A Python dict is a function whose DOMAIN is the set of keys present; *)
(*    dict.get is the operator Get.                                        *)
(*  - A response body is the sequence of the variable assignments         *)
(*    (name, quoted value) that it contains.                               *)
(***************************************************************************)
EXTENDS Integers, Sequences, FiniteSets, TLC

VARIABLES
    consecutive_failures,     \* self._consecutive_failures
    is_available,             \* self._is_available
    energy_cache,             \* self._energy_cache
    wifi_info_cache,          \* self._wifi_info_cache
    device_info_cache,        \* self._device_info_cache
    last_wifi_update,         \* self._last_wifi_update
    last_device_info_update,  \* self._last_device_info_update
    now,                      \* datetime.now(), in seconds
    data,                     \* coordinator.data: the published Snapshot
    raised,                   \* TRUE iff the last tick raised instead of returning
    outcome,                  \* classified outcome of the last tick's request
    html,                     \* body read by the last tick (NoBody on a failure)
    before,                   \* history: coordinator state when the last tick began
    failures_since_success,   \* history: failure ticks since the last Success tick
    cached_at_success,        \* history: energy cache as the last Success tick left it
    advances,                 \* number of clock steps taken (bounds the clock)
    scan_interval,            \* entry.data[CONF_SCAN_INTERVAL], in seconds
    request,                  \* when the last request began and ended, in seconds
    setup,                    \* progress and return value of async_setup_entry
    last_known_value,         \* _last_known_value of the two energy sensors
    reads,                    \* native_value of every sensor at the last read
    argument,                 \* argument of the function applied last
    returned,                 \* what that function returned or raised
    in_flight,                \* position of each tick inside _async_update_data
    serial                    \* history: state when the ticks began, effects since

coordinator_vars ==
    <<consecutive_failures, is_available, energy_cache, wifi_info_cache,
      device_info_cache, last_wifi_update, last_device_info_update, now,
      data, raised, outcome, html, before, failures_since_success,
      cached_at_success, advances>>

timing_vars == <<scan_interval, request>>

entity_vars == <<setup, last_known_value, reads>>

function_vars == <<argument, returned>>

overlap_vars == <<in_flight, serial>>

vars ==
    <<coordinator_vars, timing_vars, entity_vars, function_vars, overlap_vars>>

(***************************************************************************)
(* Bounds of the model.                                                    *)
(***************************************************************************)
MaxFailures == 5
MaxAdvances == 2

(***************************************************************************)
(* Program constants.                                                      *)
(***************************************************************************)
DEFAULT_SCAN_INTERVAL == 30
MIN_SCAN_INTERVAL == 10
MAX_SCAN_INTERVAL == 3600
CLIENT_TIMEOUT_TOTAL == 10
WIFI_UPDATE_INTERVAL == 900
DEVICE_INFO_UPDATE_INTERVAL == 86400
max_failures_before_unavailable == 3

(***************************************************************************)
(* Values.                                                                 *)
(***************************************************************************)
None == <<"None">>
NoTime == -1
NoData == [k \in {} |-> None]
NoBody == <<>>
NoRequest == [started |-> NoTime, ended |-> NoTime]
NoSetup == [stored |-> FALSE, forwarded |-> FALSE, returned |-> "None"]
NoRead == [k \in {} |-> None]
NoValue == -1
NotCalled == [raises |-> "NotCalled", value |-> None]
InFlight(r) == r.started # NoTime /\ r.ended = NoTime
Ended(r, t) == IF InFlight(r) THEN [r EXCEPT !.ended = t] ELSE r
EmptyDict == [k \in {} |-> None]

Get(d, k) == IF k \in DOMAIN d THEN d[k] ELSE None
Put(d, k, v) == [x \in (DOMAIN d) \cup {k} |-> IF x = k THEN v ELSE d[x]]

(***************************************************************************)
(* str.strip(): drop leading and trailing whitespace.                      *)
(***************************************************************************)
RECURSIVE LStrip(_)
LStrip(t) == IF t # <<>> /\ Head(t) = " " THEN LStrip(Tail(t)) ELSE t

RECURSIVE RStrip(_)
RStrip(t) ==
    IF t # <<>> /\ t[Len(t)] = " " THEN RStrip(SubSeq(t, 1, Len(t) - 1)) ELSE t

Strip(t) == RStrip(LStrip(t))

(***************************************************************************)
(* float(value) on a stripped text: an optional sign, digits with at most  *)
(* one decimal point and at least one digit.  Anything else is a           *)
(* ValueError.  The texts of the model carry at most one fractional digit, *)
(* so the value in tenths is exact.                                        *)
(***************************************************************************)
Digits == {"0", "1", "2", "3", "4", "5", "6", "7", "8", "9"}

DigitVal(c) ==
    CASE c = "0" -> 0 [] c = "1" -> 1 [] c = "2" -> 2 [] c = "3" -> 3
      [] c = "4" -> 4 [] c = "5" -> 5 [] c = "6" -> 6 [] c = "7" -> 7
      [] c = "8" -> 8 [] c = "9" -> 9

AllDigits(t) == \A i \in 1..Len(t) : t[i] \in Digits

RECURSIVE NatOf(_)
NatOf(t) ==
    IF t = <<>> THEN 0
    ELSE 10 * NatOf(SubSeq(t, 1, Len(t) - 1)) + DigitVal(t[Len(t)])

Unsigned(t) == IF t # <<>> /\ Head(t) \in {"-", "+"} THEN Tail(t) ELSE t

DotAt(t) == IF \E i \in 1..Len(t) : t[i] = "."
            THEN CHOOSE i \in 1..Len(t) : t[i] = "."
            ELSE 0

IntPart(t) == IF DotAt(t) = 0 THEN t ELSE SubSeq(t, 1, DotAt(t) - 1)
FracPart(t) == IF DotAt(t) = 0 THEN <<>> ELSE SubSeq(t, DotAt(t) + 1, Len(t))

IsFloatText(t) ==
    LET u == Unsigned(t) IN
        /\ AllDigits(IntPart(u))
        /\ AllDigits(FracPart(u))
        /\ Len(IntPart(u)) + Len(FracPart(u)) >= 1
        /\ Len(FracPart(u)) <= 1

FloatOf(t) ==
    LET u == Unsigned(t)
        tenths == 10 * NatOf(IntPart(u))
                    + (IF FracPart(u) = <<>> THEN 0 ELSE DigitVal(FracPart(u)[1]))
    IN IF t # <<>> /\ Head(t) = "-" THEN 0 - tenths ELSE tenths

(***************************************************************************)
(* _parse_numeric_value: 0.0 for None (AttributeError), for an empty or    *)
(* whitespace-only text, for "---" and for a ValueError of float().        *)
(***************************************************************************)
Returns(v) == [raises |-> "", value |-> v]
Raises(e) == [raises |-> e, value |-> None]

NumericTry(t) ==
    IF t = None THEN Raises("AttributeError")
    ELSE LET value == Strip(t) IN
         IF value = <<>> \/ value = <<"-", "-", "-">> THEN Returns(0)
         ELSE IF IsFloatText(value) THEN Returns(FloatOf(value))
         ELSE Raises("ValueError")

ParseNumericResultNoExcept(t) == NumericTry(t)

ParseNumericResult(t) ==
    IF NumericTry(t).raises \in {"ValueError", "AttributeError"}
    THEN Returns(0)
    ELSE NumericTry(t)

ParseNumericValue(t) == ParseNumericResult(t).value

(***************************************************************************)
(* re.search for the assignment of one variable in the body: group(1) of   *)
(* the first statement assigning that name, None when nothing matches.     *)
(***************************************************************************)
Search(body, name) ==
    IF \E i \in 1..Len(body) : body[i].name = name
    THEN LET first == CHOOSE i \in 1..Len(body) :
                          /\ body[i].name = name
                          /\ \A j \in 1..(i - 1) : body[j].name # name
         IN body[first].value
    ELSE None

(***************************************************************************)
(* _should_update_wifi / _should_update_device_info                        *)
(***************************************************************************)
ShouldUpdateWifi(last, t) ==
    IF last = NoTime THEN TRUE ELSE t - last >= WIFI_UPDATE_INTERVAL

ShouldUpdateDeviceInfoWifiInterval(last, t) ==
    IF last = NoTime THEN TRUE ELSE t - last >= WIFI_UPDATE_INTERVAL

ShouldUpdateDeviceInfo(last, t) ==
    IF last = NoTime THEN TRUE ELSE t - last >= DEVICE_INFO_UPDATE_INTERVAL

(***************************************************************************)
(* _get_empty_data: the dict returned when the inverter is unavailable.    *)
(***************************************************************************)
GetEmptyDataZeroEnergy(ec, dc) ==
    [current_power    |-> 0,
     today_energy     |-> 0,
     total_energy     |-> 0,
     serial_number    |-> Get(dc, "serial_number"),
     firmware_version |-> Get(dc, "firmware_version"),
     wifi_ssid        |-> None,
     wifi_signal      |-> None,
     available        |-> FALSE]

GetEmptyDataNoIdentity(ec, dc) ==
    [current_power    |-> 0,
     today_energy     |-> ec.today_energy,
     total_energy     |-> ec.total_energy,
     serial_number    |-> None,
     firmware_version |-> None,
     wifi_ssid        |-> None,
     wifi_signal      |-> None,
     available        |-> FALSE]

GetEmptyData(ec, dc) ==
    [current_power    |-> 0,
     today_energy     |-> ec.today_energy,
     total_energy     |-> ec.total_energy,
     serial_number    |-> Get(dc, "serial_number"),
     firmware_version |-> Get(dc, "firmware_version"),
     wifi_ssid        |-> None,
     wifi_signal      |-> None,
     available        |-> FALSE]

(***************************************************************************)
(* The dict _handle_failure returns below the threshold.                   *)
(***************************************************************************)
GlitchDataZeroPower(ec, dc, wc) ==
    [current_power    |-> 0,
     today_energy     |-> ec.today_energy,
     total_energy     |-> ec.total_energy,
     serial_number    |-> Get(dc, "serial_number"),
     firmware_version |-> Get(dc, "firmware_version"),
     wifi_ssid        |-> Get(wc, "wifi_ssid"),
     wifi_signal      |-> Get(wc, "wifi_signal"),
     available        |-> TRUE]

GlitchData(ec, dc, wc) ==
    [current_power    |-> ec.current_power,
     today_energy     |-> ec.today_energy,
     total_energy     |-> ec.total_energy,
     serial_number    |-> Get(dc, "serial_number"),
     firmware_version |-> Get(dc, "firmware_version"),
     wifi_ssid        |-> Get(wc, "wifi_ssid"),
     wifi_signal      |-> Get(wc, "wifi_signal"),
     available        |-> TRUE]

(***************************************************************************)
(* _handle_failure, called with the counter already incremented: the new   *)
(* value of _is_available, the dict returned, and the three caches as the  *)
(* method leaves them (it reads them and assigns none of them).            *)
(***************************************************************************)
Failed(avail, result, ec, dc, wc) ==
    [is_available |-> avail, result |-> result, energy_cache |-> ec,
     device_info_cache |-> dc, wifi_info_cache |-> wc]

HandleFailureOffByOne(cf, avail, ec, dc, wc) ==
    IF cf > max_failures_before_unavailable
    THEN Failed(FALSE, GetEmptyData(ec, dc), ec, dc, wc)
    ELSE Failed(avail, GlitchData(ec, dc, wc), ec, dc, wc)

HandleFailureNoDebounce(cf, avail, ec, dc, wc) ==
    IF cf >= 1
    THEN Failed(FALSE, GetEmptyData(ec, dc), ec, dc, wc)
    ELSE Failed(avail, GlitchData(ec, dc, wc), ec, dc, wc)

HandleFailureZeroesCachedPower(cf, avail, ec, dc, wc) ==
    IF cf >= max_failures_before_unavailable
    THEN Failed(FALSE, GetEmptyData(ec, dc),
                [ec EXCEPT !.current_power = 0], dc, wc)
    ELSE Failed(avail, GlitchData(ec, dc, wc), ec, dc, wc)

HandleFailureHonoursFlag(cf, avail, ec, dc, wc) ==
    IF cf >= max_failures_before_unavailable \/ ~avail
    THEN Failed(FALSE, GetEmptyData(ec, dc), ec, dc, wc)
    ELSE Failed(avail, GlitchData(ec, dc, wc), ec, dc, wc)

HandleFailureClearsWifiCache(cf, avail, ec, dc, wc) ==
    IF cf >= max_failures_before_unavailable
    THEN Failed(FALSE, GetEmptyData(ec, dc), ec, dc, EmptyDict)
    ELSE Failed(avail, GlitchData(ec, dc, wc), ec, dc, wc)

HandleFailure(cf, avail, ec, dc, wc) ==
    IF cf >= max_failures_before_unavailable
    THEN Failed(FALSE, GetEmptyData(ec, dc), ec, dc, wc)
    ELSE Failed(avail, GlitchData(ec, dc, wc), ec, dc, wc)

(***************************************************************************)
(* _parse_status_page, by section.                                         *)
(***************************************************************************)
ParsedPowerZeroWhenMissing(body, ec) ==
    IF Search(body, "webdata_now_p") # None
    THEN ParseNumericValue(Search(body, "webdata_now_p"))
    ELSE 0

ParsedPowerGuarded(body, ec) ==
    IF Search(body, "webdata_now_p") # None
    THEN LET new == ParseNumericValue(Search(body, "webdata_now_p")) IN
         IF new > 0 THEN new ELSE ec.current_power
    ELSE ec.current_power

ParsedPower(body, ec) ==
    IF Search(body, "webdata_now_p") # None
    THEN ParseNumericValue(Search(body, "webdata_now_p"))
    ELSE ec.current_power

ParsedEnergyNoGuard(body, var, cached) ==
    IF Search(body, var) # None
    THEN ParseNumericValue(Search(body, var))
    ELSE cached

ParsedEnergy(body, var, cached) ==
    IF Search(body, var) # None
    THEN LET new == ParseNumericValue(Search(body, var)) IN
         IF new > 0 THEN new ELSE cached
    ELSE cached

UpdateEnergyCacheKeepsPower(ec, power, today, total) ==
    [current_power |-> ec.current_power,
     today_energy  |-> IF today > 0 THEN today ELSE ec.today_energy,
     total_energy  |-> IF total > 0 THEN total ELSE ec.total_energy]

UpdateEnergyCache(ec, power, today, total) ==
    [current_power |-> power,
     today_energy  |-> IF today > 0 THEN today ELSE ec.today_energy,
     total_energy  |-> IF total > 0 THEN total ELSE ec.total_energy]

StoreIfMatchedBlanksMissing(cache, key, body, var) ==
    IF Search(body, var) # None
    THEN Put(cache, key, Strip(Search(body, var)))
    ELSE Put(cache, key, None)

StoreIfMatched(cache, key, body, var) ==
    IF Search(body, var) # None
    THEN Put(cache, key, Strip(Search(body, var)))
    ELSE cache

UpdateWifiCache(wc, body) ==
    StoreIfMatched(StoreIfMatched(wc, "wifi_ssid", body, "cover_sta_ssid"),
                   "wifi_signal", body, "cover_sta_rssi")

UpdateDeviceCache(dc, body) ==
    StoreIfMatched(
        StoreIfMatched(
            StoreIfMatched(dc, "serial_number", body, "webdata_sn"),
            "firmware_version", body, "cover_ver"),
        "module_id", body, "cover_mid")

ParseStatusPageUnguarded(body, ec, wc, dc, lastWifi, lastDev, t) ==
    LET power == ParsedPower(body, ec)
        today == ParsedEnergyNoGuard(body, "webdata_today_e", ec.today_energy)
        total == ParsedEnergyNoGuard(body, "webdata_total_e", ec.total_energy)
        wifiDue == ShouldUpdateWifi(lastWifi, t)
        devDue == ShouldUpdateDeviceInfo(lastDev, t)
        wc2 == IF wifiDue THEN UpdateWifiCache(wc, body) ELSE wc
        dc2 == IF devDue THEN UpdateDeviceCache(dc, body) ELSE dc
    IN [energy_cache |-> [current_power |-> power, today_energy |-> today,
                         total_energy |-> total],
        wifi_info_cache |-> wc2,
        device_info_cache |-> dc2,
        last_wifi_update |-> IF wifiDue THEN t ELSE lastWifi,
        last_device_info_update |-> IF devDue THEN t ELSE lastDev,
        result |-> [available        |-> TRUE,
                    current_power    |-> power,
                    today_energy     |-> today,
                    total_energy     |-> total,
                    wifi_ssid        |-> Get(wc2, "wifi_ssid"),
                    wifi_signal      |-> Get(wc2, "wifi_signal"),
                    serial_number    |-> Get(dc2, "serial_number"),
                    firmware_version |-> Get(dc2, "firmware_version"),
                    module_id        |-> Get(dc2, "module_id")]]

ParseStatusPageStampsOnMatch(body, ec, wc, dc, lastWifi, lastDev, t) ==
    LET power == ParsedPower(body, ec)
        today == ParsedEnergy(body, "webdata_today_e", ec.today_energy)
        total == ParsedEnergy(body, "webdata_total_e", ec.total_energy)
        wifiDue == ShouldUpdateWifi(lastWifi, t)
        devDue == ShouldUpdateDeviceInfo(lastDev, t)
        wc2 == IF wifiDue THEN UpdateWifiCache(wc, body) ELSE wc
        dc2 == IF devDue THEN UpdateDeviceCache(dc, body) ELSE dc
    IN [energy_cache |-> UpdateEnergyCache(ec, power, today, total),
        wifi_info_cache |-> wc2,
        device_info_cache |-> dc2,
        last_wifi_update |->
            IF wifiDue /\ (\/ Search(body, "cover_sta_ssid") # None
                           \/ Search(body, "cover_sta_rssi") # None)
            THEN t ELSE lastWifi,
        last_device_info_update |->
            IF devDue /\ (\/ Search(body, "webdata_sn") # None
                          \/ Search(body, "cover_ver") # None
                          \/ Search(body, "cover_mid") # None)
            THEN t ELSE lastDev,
        result |-> [available        |-> TRUE,
                    current_power    |-> power,
                    today_energy     |-> today,
                    total_energy     |-> total,
                    wifi_ssid        |-> Get(wc2, "wifi_ssid"),
                    wifi_signal      |-> Get(wc2, "wifi_signal"),
                    serial_number    |-> Get(dc2, "serial_number"),
                    firmware_version |-> Get(dc2, "firmware_version"),
                    module_id        |-> Get(dc2, "module_id")]]

ParseStatusPage(body, ec, wc, dc, lastWifi, lastDev, t) ==
    LET power == ParsedPower(body, ec)
        today == ParsedEnergy(body, "webdata_today_e", ec.today_energy)
        total == ParsedEnergy(body, "webdata_total_e", ec.total_energy)
        wifiDue == ShouldUpdateWifi(lastWifi, t)
        devDue == ShouldUpdateDeviceInfo(lastDev, t)
        wc2 == IF wifiDue THEN UpdateWifiCache(wc, body) ELSE wc
        dc2 == IF devDue THEN UpdateDeviceCache(dc, body) ELSE dc
    IN [energy_cache |-> UpdateEnergyCache(ec, power, today, total),
        wifi_info_cache |-> wc2,
        device_info_cache |-> dc2,
        last_wifi_update |-> IF wifiDue THEN t ELSE lastWifi,
        last_device_info_update |-> IF devDue THEN t ELSE lastDev,
        result |-> [available        |-> TRUE,
                    current_power    |-> power,
                    today_energy     |-> today,
                    total_energy     |-> total,
                    wifi_ssid        |-> Get(wc2, "wifi_ssid"),
                    wifi_signal      |-> Get(wc2, "wifi_signal"),
                    serial_number    |-> Get(dc2, "serial_number"),
                    firmware_version |-> Get(dc2, "firmware_version"),
                    module_id        |-> Get(dc2, "module_id")]]

(***************************************************************************)
(* Outcomes of the request of one tick, and the branch of                  *)
(* _async_update_data that each of them takes.                             *)
(***************************************************************************)
FailureOutcomes ==
    {"AuthFailure", "HttpError", "Timeout", "ConnectionRefused",
     "OtherTransportError", "Unexpected"}

BranchNoCatchAll(o) ==
    CASE o = "Success"             -> "parse"
      [] o = "AuthFailure"         -> "failure"
      [] o = "HttpError"           -> "failure"
      [] o = "Timeout"             -> "failure"
      [] o = "ConnectionRefused"   -> "failure"
      [] o = "OtherTransportError" -> "failure"
      [] o = "Unexpected"          -> "raise"

BranchAuthRaises(o) ==
    CASE o = "Success"             -> "parse"
      [] o = "AuthFailure"         -> "raise"
      [] o = "HttpError"           -> "failure"
      [] o = "Timeout"             -> "failure"
      [] o = "ConnectionRefused"   -> "failure"
      [] o = "OtherTransportError" -> "failure"
      [] o = "Unexpected"          -> "failure"

Branch(o) ==
    CASE o = "Success"             -> "parse"    \* status 200, body read
      [] o = "AuthFailure"         -> "failure"  \* response.status == 401
      [] o = "HttpError"           -> "failure"  \* response.status != 200
      [] o = "Timeout"             -> "failure"  \* except asyncio.TimeoutError
      [] o = "ConnectionRefused"   -> "failure"  \* except ClientConnectorError
      [] o = "OtherTransportError" -> "failure"  \* except aiohttp.ClientError
      [] o = "Unexpected"          -> "failure"  \* except Exception

(***************************************************************************)
(* The tracker after a Success: the counter reset and the flag set         *)
(* (_async_update_data, after the body is read).                           *)
(***************************************************************************)
RecordSuccessKeepsFlag(cf, avail) ==
    [consecutive_failures |-> 0, is_available |-> avail]

RecordSuccessKeepsCount(cf, avail) ==
    [consecutive_failures |-> cf, is_available |-> TRUE]

RecordSuccess(cf, avail) ==
    [consecutive_failures |-> 0, is_available |-> TRUE]

(***************************************************************************)
(* State after construction (__init__).                                    *)
(***************************************************************************)
Constructed ==
    /\ consecutive_failures = 0
    /\ is_available = FALSE
    /\ energy_cache = [today_energy |-> 0, total_energy |-> 0, current_power |-> 0]
    /\ wifi_info_cache = EmptyDict
    /\ device_info_cache = EmptyDict
    /\ last_wifi_update = NoTime
    /\ last_device_info_update = NoTime
    /\ now = 0
    /\ data = NoData
    /\ raised = FALSE
    /\ outcome = "None"
    /\ html = NoBody
    /\ before = [consecutive_failures |-> 0, is_available |-> FALSE,
                 energy_cache |-> [today_energy |-> 0, total_energy |-> 0,
                                   current_power |-> 0],
                 wifi_info_cache |-> EmptyDict,
                 device_info_cache |-> EmptyDict,
                 last_wifi_update |-> NoTime,
                 last_device_info_update |-> NoTime]
    /\ failures_since_success = 0
    /\ cached_at_success = [today_energy |-> 0, total_energy |-> 0, current_power |-> 0]
    /\ advances = 0

NotAdded ==
    /\ setup = NoSetup
    /\ last_known_value = [today_energy |-> NoValue, total_energy |-> NoValue]
    /\ reads = NoRead

NothingApplied ==
    /\ argument = None
    /\ returned = NotCalled

(***************************************************************************)
(* The attributes of the coordinator that a tick reads and writes, and the *)
(* ticks in flight: none after construction.                               *)
(***************************************************************************)
TickIds == {1, 2}

Attributes ==
    [consecutive_failures |-> consecutive_failures,
     is_available |-> is_available,
     energy_cache |-> energy_cache,
     wifi_info_cache |-> wifi_info_cache,
     device_info_cache |-> device_info_cache,
     last_wifi_update |-> last_wifi_update,
     last_device_info_update |-> last_device_info_update]

NoTicks ==
    /\ in_flight = [i \in TickIds |-> [pc |-> "idle", seen |-> Attributes]]
    /\ serial = [base |-> Attributes, applied |-> <<>>, overlapped |-> FALSE]

Init ==
    /\ Constructed
    /\ scan_interval = DEFAULT_SCAN_INTERVAL
    /\ request = NoRequest
    /\ NotAdded
    /\ NothingApplied
    /\ NoTicks

History(o, body) ==
    /\ outcome' = o
    /\ html' = body
    /\ before' = [consecutive_failures |-> consecutive_failures,
                  is_available |-> is_available,
                  energy_cache |-> energy_cache,
                  wifi_info_cache |-> wifi_info_cache,
                  device_info_cache |-> device_info_cache,
                  last_wifi_update |-> last_wifi_update,
                  last_device_info_update |-> last_device_info_update]

(***************************************************************************)
(* _async_update_data when the request returns 200 and the body is read.   *)
(***************************************************************************)
TickSuccess(body) ==
    \E p \in {ParseStatusPage(body, energy_cache, wifi_info_cache,
                               device_info_cache, last_wifi_update,
                               last_device_info_update, now)} :
       /\ Branch("Success") = "parse"
       /\ consecutive_failures' =
              RecordSuccess(consecutive_failures, is_available).consecutive_failures
       /\ is_available' =
              RecordSuccess(consecutive_failures, is_available).is_available
       /\ energy_cache' = p.energy_cache
       /\ wifi_info_cache' = p.wifi_info_cache
       /\ device_info_cache' = p.device_info_cache
       /\ last_wifi_update' = p.last_wifi_update
       /\ last_device_info_update' = p.last_device_info_update
       /\ data' = p.result
       /\ raised' = FALSE
       /\ History("Success", body)
       /\ failures_since_success' = 0
       /\ cached_at_success' = p.energy_cache
       /\ UNCHANGED <<now, advances>>
       /\ request' = Ended(request, now)
       /\ UNCHANGED <<scan_interval, entity_vars, function_vars, overlap_vars>>

(***************************************************************************)
(* _async_update_data when the request fails with outcome o.  An outcome   *)
(* that no branch handles leaves the coroutine as an exception.            *)
(***************************************************************************)
TickFailure(o) ==
    /\ consecutive_failures < MaxFailures
    /\ History(o, NoBody)
    /\ failures_since_success' = failures_since_success + 1
    /\ IF Branch(o) = "failure"
       THEN \E h \in {HandleFailure(consecutive_failures + 1, is_available,
                                     energy_cache, device_info_cache,
                                     wifi_info_cache)} :
               /\ consecutive_failures' = consecutive_failures + 1
               /\ is_available' = h.is_available
               /\ energy_cache' = h.energy_cache
               /\ device_info_cache' = h.device_info_cache
               /\ wifi_info_cache' = h.wifi_info_cache
               /\ data' = h.result
               /\ raised' = FALSE
       ELSE /\ raised' = TRUE
            /\ UNCHANGED <<consecutive_failures, is_available, data,
                           energy_cache, device_info_cache, wifi_info_cache>>
    /\ UNCHANGED <<last_wifi_update, last_device_info_update, now,
                   cached_at_success, advances>>
    /\ request' = Ended(request, now)
    /\ UNCHANGED <<scan_interval, entity_vars, function_vars, overlap_vars>>

(***************************************************************************)
(* The wall clock read by datetime.now() moves between ticks.              *)
(***************************************************************************)
ClockSteps == {450, 85950}

AdvanceClock(d) ==
    /\ advances < MaxAdvances
    /\ now' = now + d
    /\ advances' = advances + 1
    /\ UNCHANGED <<consecutive_failures, is_available, energy_cache,
                   wifi_info_cache, device_info_cache, last_wifi_update,
                   last_device_info_update, data, raised, outcome, html,
                   before, failures_since_success, cached_at_success>>
    /\ UNCHANGED <<timing_vars, entity_vars, function_vars, overlap_vars>>

(***************************************************************************)
(* Response bodies.                                                        *)
(***************************************************************************)
Stmt(var, text) ==
    IF text = None THEN <<>> ELSE <<[name |-> var, value |-> text]>>

MkBody(p, today, total, ssid, rssi, sn, ver, mid) ==
    Stmt("webdata_sn", sn) \o Stmt("cover_ver", ver) \o Stmt("cover_mid", mid)
      \o Stmt("cover_sta_ssid", ssid) \o Stmt("cover_sta_rssi", rssi)
      \o Stmt("webdata_now_p", p) \o Stmt("webdata_today_e", today)
      \o Stmt("webdata_total_e", total)

Bodies ==
    { MkBody(p, <<"4", ".", "2">>, <<"1", "0", "0">>, ssid, <<"7", "5", "%">>,
             <<"S", "1">>, <<"V", "1">>, mid) :
        p \in {None, <<"1", "5", "0">>, <<"0">>},
        ssid \in {None, <<" ", "a", "p", " ">>},
        mid \in {None, <<"M", "1">>} }

EnergyBodies ==
    { MkBody(<<"1", "5", "0">>, today, total, <<"a", "p">>, <<"7", "5", "%">>,
             <<"S", "1">>, <<"V", "1">>, <<"M", "1">>) :
        today \in {None, <<"4", ".", "2">>, <<" ", "5", " ">>, <<"0">>, <<>>,
                   <<"-", "-", "-">>, <<"x">>, <<"-", "1">>},
        total \in {None, <<"1", "0", "0">>, <<"1", "0", "1", ".", "5">>,
                   <<"0", ".", "0">>, <<"-", "-", "-">>, <<"x">>} }

(***************************************************************************)
(* Spec: every outcome class, a few bodies, a moving clock.                *)
(***************************************************************************)
Next ==
    \/ \E body \in Bodies : TickSuccess(body)
    \/ \E o \in FailureOutcomes : TickFailure(o)
    \/ \E d \in ClockSteps : AdvanceClock(d)

Spec == Init /\ [][Next]_vars

(***************************************************************************)
(* SpecEnergy: every outcome class and the energy readings of              *)
(* EnergyBodies; the energy group does not read the clock.                 *)
(***************************************************************************)
NextEnergy ==
    \/ \E body \in EnergyBodies : TickSuccess(body)
    \/ \E o \in FailureOutcomes : TickFailure(o)

SpecEnergy == Init /\ [][NextEnergy]_vars

(***************************************************************************)
(* SpecPartial: Success ticks on two complete pages with different         *)
(* network and identity values, and on each of them with one expected      *)
(* variable left out, under a moving clock.                                *)
(***************************************************************************)
ExpectedVars ==
    {"webdata_now_p", "webdata_today_e", "webdata_total_e", "webdata_sn",
     "cover_ver", "cover_mid", "cover_sta_ssid", "cover_sta_rssi"}

Without(body, var) == SelectSeq(body, LAMBDA st : st.name # var)

FirstBody ==
    MkBody(<<"1", "5", "0">>, <<"4", ".", "2">>, <<"1", "0", "0">>,
             <<" ", "a", "p", " ">>, <<"7", "5", "%">>,
             <<"S", "1">>, <<"V", "1">>, <<"M", "1">>)

SecondBody ==
    MkBody(<<"1", "5", "0">>, <<"4", ".", "2">>, <<"1", "0", "0">>,
             <<"l", "a", "n">>, <<"4", "0", "%">>,
             <<"S", "2">>, <<"V", "2">>, <<"M", "1">>)

PartialBodies ==
    {FirstBody, SecondBody} \cup { Without(FirstBody, var) : var \in ExpectedVars }

NextPartial ==
    \/ \E body \in PartialBodies : TickSuccess(body)
    \/ \E d \in ClockSteps : AdvanceClock(d)

SpecPartial == Init /\ [][NextPartial]_vars

(***************************************************************************)
(* SpecGate: Success ticks on a complete page, on a page with other        *)
(* network and identity values, and on pages that carry no network         *)
(* variable, no identity variable, or neither, under a moving clock.       *)
(***************************************************************************)
RECURSIVE WithoutAll(_, _)
WithoutAll(body, names) ==
    IF names = {} THEN body
    ELSE LET var == CHOOSE n \in names : TRUE
         IN WithoutAll(Without(body, var), names \ {var})

NetworkVars == {"cover_sta_ssid", "cover_sta_rssi"}

IdentityVars == {"webdata_sn", "cover_ver", "cover_mid"}

GateBodies ==
    { FirstBody, SecondBody,
      WithoutAll(FirstBody, NetworkVars),
      WithoutAll(FirstBody, IdentityVars),
      WithoutAll(FirstBody, NetworkVars \cup IdentityVars) }

NextGate ==
    \/ \E body \in GateBodies : TickSuccess(body)
    \/ \E d \in ClockSteps : AdvanceClock(d)

SpecGate == Init /\ [][NextGate]_vars

(***************************************************************************)
(* SpecTimeout: the poll timer and the request timeout.  The config flow   *)
(* stores a scan interval that its schema accepts; the timer starts a      *)
(* request when none is in flight and the interval since the start of the  *)
(* previous one has passed; the request ends with its outcome no later     *)
(* than ClientTimeout(total=10) after it began, a timeout no earlier than  *)
(* the connect timeout.                                                    *)
(***************************************************************************)
CLIENT_TIMEOUT_CONNECT == 5

SchemaAccepts(x) == x >= MIN_SCAN_INTERVAL /\ x <= MAX_SCAN_INTERVAL

ScanInputs == {9, 10, 11, 30, 3600, 3601}

TimeoutSteps == {5, 10, 30}

TimeoutBodies ==
    { MkBody(<<"1", "5", "0">>, <<"4", ".", "2">>, <<"1", "0", "0">>,
             <<"a", "p">>, <<"7", "5", "%">>, <<"S", "1">>, <<"V", "1">>,
             <<"M", "1">>) }

ConfigFlow(x) ==
    /\ request = NoRequest
    /\ SchemaAccepts(x)
    /\ scan_interval' = x
    /\ UNCHANGED <<coordinator_vars, request, entity_vars, function_vars,
                   overlap_vars>>

BeginRequest ==
    /\ ~InFlight(request)
    /\ request.started # NoTime => now >= request.started + scan_interval
    /\ request' = [started |-> now, ended |-> NoTime]
    /\ UNCHANGED <<coordinator_vars, scan_interval, entity_vars, function_vars,
                   overlap_vars>>

Elapse(d) ==
    /\ InFlight(request) => now + d <= request.started + CLIENT_TIMEOUT_TOTAL
    /\ AdvanceClock(d)

EndRequestSuccess(body) ==
    /\ InFlight(request)
    /\ now - request.started < CLIENT_TIMEOUT_TOTAL
    /\ TickSuccess(body)

EndRequestFailure(o) ==
    /\ InFlight(request)
    /\ IF o = "Timeout"
       THEN now - request.started \in {CLIENT_TIMEOUT_CONNECT, CLIENT_TIMEOUT_TOTAL}
       ELSE now - request.started < CLIENT_TIMEOUT_TOTAL
    /\ TickFailure(o)

NextTimeout ==
    \/ \E x \in ScanInputs : ConfigFlow(x)
    \/ BeginRequest
    \/ \E d \in TimeoutSteps : Elapse(d)
    \/ \E body \in TimeoutBodies : EndRequestSuccess(body)
    \/ \E o \in FailureOutcomes : EndRequestFailure(o)

SpecTimeout == Init /\ [][NextTimeout]_vars

(***************************************************************************)
(* SpecPower: every outcome class and the power readings of PowerBodies    *)
(* (absent, positive, negative, padded, placeholder, unparsable, empty,    *)
(* zero).                                                                  *)
(***************************************************************************)
PowerBodies ==
    { MkBody(p, <<"4", ".", "2">>, <<"1", "0", "0">>, <<"a", "p">>,
             <<"7", "5", "%">>, <<"S", "1">>, <<"V", "1">>, <<"M", "1">>) :
        p \in {None, <<"1", "5", "0">>, <<"-", "5">>, <<" ", "7", ".", "5", " ">>,
               <<"-", "-", "-">>, <<"x">>, <<>>, <<"0">>} }

NextPower ==
    \/ \E body \in PowerBodies : TickSuccess(body)
    \/ \E o \in FailureOutcomes : TickFailure(o)

SpecPower == Init /\ [][NextPower]_vars

(***************************************************************************)
(* SpecNumeric: _parse_numeric_value applied to None and to every text of  *)
(* at most MaxTextLen characters over NumericAlphabet that has no two      *)
(* digits after a decimal point (tenths represent the others exactly).     *)
(***************************************************************************)
MaxTextLen == 3

NumericAlphabet == {" ", "-", ".", "0", "5", "x"}

Texts(alphabet, n) == UNION { [1..k -> alphabet] : k \in 0..n }

OneFractionalDigit(t) ==
    \A i \in 1..Len(t) :
        (t[i] = "." /\ i + 2 <= Len(t)) =>
            ~(t[i + 1] \in Digits /\ t[i + 2] \in Digits)

NumericTexts ==
    {None} \cup { t \in Texts(NumericAlphabet, MaxTextLen) : OneFractionalDigit(t) }

InitNumeric ==
    /\ Constructed
    /\ scan_interval = DEFAULT_SCAN_INTERVAL
    /\ request = NoRequest
    /\ NotAdded
    /\ argument \in NumericTexts
    /\ returned = NotCalled
    /\ NoTicks

CallParseNumericValue ==
    /\ returned = NotCalled
    /\ returned' = ParseNumericResult(argument)
    /\ UNCHANGED <<coordinator_vars, timing_vars, entity_vars, argument,
                   overlap_vars>>

NextNumeric == CallParseNumericValue

SpecNumeric == InitNumeric /\ [][NextNumeric]_vars

(***************************************************************************)
(* sensor.py: native_value and available of the eight sensor entities.     *)
(* The energy sensors keep _last_known_value, which a read may update.     *)
(***************************************************************************)
Txt(str) ==
    CASE str = "Offline"   -> <<"O", "f", "f", "l", "i", "n", "e">>
      [] str = "Unbekannt" -> <<"U", "n", "b", "e", "k", "a", "n", "n", "t">>
      [] str = "Online"    -> <<"O", "n", "l", "i", "n", "e">>
      [] str = "Offline (Nachtmodus)" ->
             <<"O", "f", "f", "l", "i", "n", "e", " ", "(", "N", "a", "c", "h",
               "t", "m", "o", "d", "u", "s", ")">>

CurrentPowerValue(d) ==
    IF d = NoData THEN 0
    ELSE IF "current_power" \notin DOMAIN d THEN 0
    ELSE d.current_power

EnergyValueReturnsStale(d, key, last) ==
    LET val == IF d # NoData /\ key \in DOMAIN d THEN d[key] ELSE 0 IN
        IF last # NoValue THEN [value |-> last, last_known_value |-> val]
        ELSE [value |-> val, last_known_value |-> val]

EnergyValueNoFallback(d, key, last) ==
    LET val == IF d # NoData /\ key \in DOMAIN d THEN d[key] ELSE 0 IN
        IF val > 0 THEN [value |-> val, last_known_value |-> val]
        ELSE [value |-> 0, last_known_value |-> last]

EnergyValue(d, key, last) ==
    LET val == IF d # NoData /\ key \in DOMAIN d THEN d[key] ELSE 0 IN
        IF val > 0 THEN [value |-> val, last_known_value |-> val]
        ELSE IF last # NoValue THEN [value |-> last, last_known_value |-> last]
        ELSE [value |-> 0, last_known_value |-> last]

TextValue(d, key, missing) ==
    IF d = NoData THEN Txt(missing)
    ELSE IF Get(d, key) = None THEN Txt(missing)
    ELSE d[key]

StatusValueBare(d) ==
    IF d = NoData THEN Txt("Unbekannt")
    ELSE IF "available" \in DOMAIN d /\ d.available
         THEN Txt("Online") ELSE Txt("Offline")

StatusValue(d) ==
    IF d = NoData THEN Txt("Unbekannt")
    ELSE IF "available" \in DOMAIN d /\ d.available
         THEN Txt("Online") ELSE Txt("Offline (Nachtmodus)")

SensorAvailableFollowsSnapshot(d) ==
    d # NoData /\ "available" \in DOMAIN d /\ d.available

SensorAvailable(d) == TRUE

SensorKeys ==
    {"current_power", "today_energy", "total_energy", "wifi_ssid",
     "wifi_signal", "serial_number", "firmware_version", "status"}

NativeValues(d, last) ==
    [current_power    |-> CurrentPowerValue(d),
     today_energy     |-> EnergyValue(d, "today_energy", last.today_energy).value,
     total_energy     |-> EnergyValue(d, "total_energy", last.total_energy).value,
     wifi_ssid        |-> TextValue(d, "wifi_ssid", "Offline"),
     wifi_signal      |-> TextValue(d, "wifi_signal", "Offline"),
     serial_number    |-> TextValue(d, "serial_number", "Unbekannt"),
     firmware_version |-> TextValue(d, "firmware_version", "Unbekannt"),
     status           |-> StatusValue(d)]

LastKnownAfterRead(d, last) ==
    [today_energy |->
         EnergyValue(d, "today_energy", last.today_energy).last_known_value,
     total_energy |->
         EnergyValue(d, "total_energy", last.total_energy).last_known_value]

(***************************************************************************)
(* async_setup_entry.  Its first refresh is one tick of the coordinator;   *)
(* async_config_entry_first_refresh may also raise, and the handler then   *)
(* falls back to _get_empty_data.  After the refresh the handler stores    *)
(* the coordinator, forwards the sensor platform (whose energy sensors     *)
(* restore their last state) and returns True.                             *)
(***************************************************************************)
FirstRefreshPending == setup = NoSetup /\ outcome = "None"

FirstRefreshRaises ==
    /\ FirstRefreshPending
    /\ History("FirstRefreshRaised", NoBody)
    /\ raised' = TRUE
    /\ UNCHANGED <<consecutive_failures, is_available, energy_cache,
                   wifi_info_cache, device_info_cache, last_wifi_update,
                   last_device_info_update, now, data, failures_since_success,
                   cached_at_success, advances>>
    /\ UNCHANGED <<timing_vars, entity_vars, function_vars, overlap_vars>>

FallbackDataNone(ec, dc) == NoData

FallbackData(ec, dc) == GetEmptyData(ec, dc)

SetupReturnPropagates(r) ==
    IF r THEN [stored |-> FALSE, forwarded |-> FALSE, returned |-> "Raised"]
    ELSE [stored |-> TRUE, forwarded |-> TRUE, returned |-> "True"]

SetupReturn(r) == [stored |-> TRUE, forwarded |-> TRUE, returned |-> "True"]

RestoredStates ==
    { [today_energy |-> NoValue, total_energy |-> NoValue],
      [today_energy |-> 30, total_energy |-> 990] }

FinishSetup(restored) ==
    /\ setup = NoSetup
    /\ outcome # "None"
    /\ data' = IF raised THEN FallbackData(energy_cache, device_info_cache)
               ELSE data
    /\ setup' = SetupReturn(raised)
    /\ last_known_value' =
           IF SetupReturn(raised).forwarded THEN restored ELSE last_known_value
    /\ UNCHANGED <<consecutive_failures, is_available, energy_cache,
                   wifi_info_cache, device_info_cache, last_wifi_update,
                   last_device_info_update, now, raised, outcome, html, before,
                   failures_since_success, cached_at_success, advances>>
    /\ UNCHANGED <<timing_vars, reads, function_vars, overlap_vars>>

ReadSensors ==
    /\ setup.forwarded
    /\ reads' = [data |-> data,
                 values |-> NativeValues(data, last_known_value),
                 available |-> [k \in SensorKeys |-> SensorAvailable(data)],
                 repeated |-> reads # NoRead /\ reads.data = data]
    /\ last_known_value' = LastKnownAfterRead(data, last_known_value)
    /\ UNCHANGED <<coordinator_vars, timing_vars, setup, function_vars,
                   overlap_vars>>

EntryBodies ==
    { MkBody(<<"1", "5", "0">>, <<"4", ".", "2">>, <<"1", "0", "0">>,
             <<"a", "p">>, <<"7", "5", "%">>, <<"S", "1">>, <<"V", "1">>,
             <<"M", "1">>),
      MkBody(<<"0">>, <<"0">>, <<"1", "0", "1", ".", "5">>,
             None, None, None, None, None) }

Polling == FirstRefreshPending \/ setup.returned = "True"

NextEntry ==
    \/ \E body \in EntryBodies : Polling /\ TickSuccess(body)
    \/ \E o \in FailureOutcomes : Polling /\ TickFailure(o)
    \/ FirstRefreshRaises
    \/ \E restored \in RestoredStates : FinishSetup(restored)
    \/ ReadSensors

SpecEntry == Init /\ [][NextEntry]_vars

(***************************************************************************)
(* re.search on the characters of the page, for the pattern: var, one or  *)
(* more whitespace, the name, optional whitespace, an equals sign,         *)
(* optional whitespace, a quote, any characters but a quote (group 1), a   *)
(* quote and a semicolon.  The leftmost position where the pattern         *)
(* matches decides.  No character class of the                             *)
(* pattern overlaps the literal that follows it, so a position matches in  *)
(* at most one way.                                                        *)
(***************************************************************************)
Quote == "\""

IsSpace(c) == c \in {" ", "\t", "\n"}

RECURSIVE SkipSpaces(_, _)
SkipSpaces(t, i) ==
    IF i <= Len(t) /\ IsSpace(t[i]) THEN SkipSpaces(t, i + 1) ELSE i

RECURSIVE NextQuote(_, _)
NextQuote(t, i) ==
    IF i > Len(t) \/ t[i] = Quote THEN i ELSE NextQuote(t, i + 1)

LiteralAt(t, i, w) ==
    /\ i >= 1
    /\ i + Len(w) - 1 <= Len(t)
    /\ SubSeq(t, i, i + Len(w) - 1) = w

CharAt(t, i, c) == i >= 1 /\ i <= Len(t) /\ t[i] = c

MatchAt(t, i, name) ==
    LET afterVar  == i + 3
        nameAt    == SkipSpaces(t, afterVar)
        equalsAt  == SkipSpaces(t, nameAt + Len(name))
        openAt    == SkipSpaces(t, equalsAt + 1)
        closeAt   == NextQuote(t, openAt + 1)
    IN IF /\ LiteralAt(t, i, <<"v", "a", "r">>)
          /\ nameAt > afterVar
          /\ LiteralAt(t, nameAt, name)
          /\ CharAt(t, equalsAt, "=")
          /\ CharAt(t, openAt, Quote)
          /\ CharAt(t, closeAt, Quote)
          /\ CharAt(t, closeAt + 1, ";")
       THEN SubSeq(t, openAt + 1, closeAt - 1)
       ELSE None

ReSearchLast(t, name) ==
    IF \E i \in 1..Len(t) : MatchAt(t, i, name) # None
    THEN LET last == CHOOSE i \in 1..Len(t) :
                        /\ MatchAt(t, i, name) # None
                        /\ \A j \in (i + 1)..Len(t) : MatchAt(t, j, name) = None
         IN MatchAt(t, last, name)
    ELSE None

ReSearch(t, name) ==
    IF \E i \in 1..Len(t) : MatchAt(t, i, name) # None
    THEN LET first == CHOOSE i \in 1..Len(t) :
                         /\ MatchAt(t, i, name) # None
                         /\ \A j \in 1..(i - 1) : MatchAt(t, j, name) = None
         IN MatchAt(t, first, name)
    ELSE None

(***************************************************************************)
(* SpecExtract: pages of at most MaxStatements assignments, in every       *)
(* order, with repeated names and with different whitespace around the     *)
(* name and the equals sign, written out character by character.           *)
(***************************************************************************)
MaxStatements == 2

NameChars(name) ==
    CASE name = "cover_mid"  -> <<"c", "o", "v", "e", "r", "_", "m", "i", "d">>
      [] name = "cover_ver"  -> <<"c", "o", "v", "e", "r", "_", "v", "e", "r">>
      [] name = "webdata_sn" ->
             <<"w", "e", "b", "d", "a", "t", "a", "_", "s", "n">>

ExtractNames == {"cover_mid", "cover_ver", "webdata_sn"}

Spacings ==
    { [after_var |-> <<" ">>, before_equals |-> <<" ">>, after_equals |-> <<" ">>],
      [after_var |-> <<" ">>, before_equals |-> <<>>, after_equals |-> <<>>],
      [after_var |-> <<"\t", " ">>, before_equals |-> <<" ", " ">>,
       after_equals |-> <<"\n">>] }

Statements ==
    [name : ExtractNames, value : {<<"1">>, <<"2", " ">>}, spacing : Spacings]

RenderStatement(st) ==
    <<"v", "a", "r">> \o st.spacing.after_var \o NameChars(st.name)
      \o st.spacing.before_equals \o <<"=">> \o st.spacing.after_equals
      \o <<Quote>> \o st.value \o <<Quote, ";", "\n">>

RECURSIVE Render(_)
Render(sts) ==
    IF sts = <<>> THEN <<>> ELSE RenderStatement(Head(sts)) \o Render(Tail(sts))

Pages ==
    { [statements |-> sts, html |-> Render(sts)] :
        sts \in UNION { [1..k -> Statements] : k \in 0..MaxStatements } }

InitExtract ==
    /\ Constructed
    /\ scan_interval = DEFAULT_SCAN_INTERVAL
    /\ request = NoRequest
    /\ NotAdded
    /\ argument \in Pages
    /\ returned = NotCalled
    /\ NoTicks

CallSearch ==
    /\ returned = NotCalled
    /\ returned' = Returns([name \in ExtractNames |->
                               ReSearch(argument.html, NameChars(name))])
    /\ UNCHANGED <<coordinator_vars, timing_vars, entity_vars, argument,
                   overlap_vars>>

NextExtract == CallSearch

SpecExtract == InitExtract /\ [][NextExtract]_vars

(***************************************************************************)
(* config_flow.py: validate_input probes the status page, and the user     *)
(* step and the options step turn its outcome into a form with an error,   *)
(* or into a created or updated config entry.  A probe is what the request *)
(* of validate_input meets: an exception of session.get, a status, an      *)
(* exception of response.text(), a body.  The label of a probe names its   *)
(* case for the properties; the code never reads it.                       *)
(***************************************************************************)
WebdataNowP ==
    <<"w", "e", "b", "d", "a", "t", "a", "_", "n", "o", "w", "_", "p">>

Contains(t, w) == \E i \in 1..Len(t) : LiteralAt(t, i, w)

ValidateInputNoBodyCheck(host, probe) ==
    IF probe.error = "ClientError" THEN Raises("CannotConnect")
    ELSE IF probe.error # "" THEN Raises(probe.error)
    ELSE IF probe.status = 401 THEN Raises("InvalidAuth")
    ELSE IF probe.status # 200 THEN Raises("CannotConnect")
    ELSE IF probe.text_error = "ClientError" THEN Raises("CannotConnect")
    ELSE IF probe.text_error # "" THEN Raises(probe.text_error)
    ELSE Returns([title |-> <<"Deye Inverter", host>>])

ValidateInput(host, probe) ==
    IF probe.error = "ClientError" THEN Raises("CannotConnect")
    ELSE IF probe.error # "" THEN Raises(probe.error)
    ELSE IF probe.status = 401 THEN Raises("InvalidAuth")
    ELSE IF probe.status # 200 THEN Raises("CannotConnect")
    ELSE IF probe.text_error = "ClientError" THEN Raises("CannotConnect")
    ELSE IF probe.text_error # "" THEN Raises(probe.text_error)
    ELSE IF ~Contains(probe.body, WebdataNowP) THEN Raises("CannotConnect")
    ELSE Returns([title |-> <<"Deye Inverter", host>>])

ErrorKey(v) ==
    IF v.raises = "CannotConnect" THEN "cannot_connect"
    ELSE IF v.raises = "InvalidAuth" THEN "invalid_auth"
    ELSE "unknown"

ShowForm(step, errors, entries) ==
    [result |-> [type |-> "form", step_id |-> step, errors |-> errors],
     entries |-> entries]

Merged(old, new) ==
    [k \in (DOMAIN old) \cup (DOMAIN new) |->
        IF k \in DOMAIN new THEN new[k] ELSE old[k]]

StepUser(a) ==
    IF ~a.submitted THEN ShowForm("user", EmptyDict, a.entries)
    ELSE IF \E e \in a.entries : e.host = a.user_input.host
    THEN [result |-> [type |-> "abort", reason |-> "already_configured"],
          entries |-> a.entries]
    ELSE LET info == ValidateInput(a.user_input.host, a.probe) IN
         IF info.raises # ""
         THEN ShowForm("user", Put(EmptyDict, "base", ErrorKey(info)), a.entries)
         ELSE [result |-> [type |-> "create_entry", title |-> info.value.title,
                           data |-> a.user_input],
               entries |-> a.entries \cup {a.user_input}]

StepInit(a) ==
    IF ~a.submitted THEN ShowForm("init", EmptyDict, a.entries)
    ELSE LET info == ValidateInput(a.config_entry.host, a.probe) IN
         IF info.raises # ""
         THEN ShowForm("init", Put(EmptyDict, "base", ErrorKey(info)), a.entries)
         ELSE [result |-> [type |-> "create_entry", title |-> <<>>,
                           data |-> EmptyDict],
               entries |-> (a.entries \ {a.config_entry})
                              \cup {Merged(a.config_entry, a.user_input)}]

(***************************************************************************)
(* SpecFlow: one step of the user flow or of the options flow on every     *)
(* combination of submitted input, existing entries and probe.             *)
(***************************************************************************)
PowerPage ==
    <<"v", "a", "r", " ">> \o WebdataNowP \o <<"=", Quote, "1", Quote, ";">>

MentionPage == <<"<", "!">> \o WebdataNowP

OtherPage == <<"v", "a", "r", " ", "x", "=", Quote, "1", Quote, ";">>

TruncatedPage == SubSeq(PowerPage, 1, Len(PowerPage) - 7)

Probe(label, error, status, text_error, body) ==
    [label |-> label, error |-> error, status |-> status,
     text_error |-> text_error, body |-> body]

Probes ==
    { Probe("ok", "", 200, "", PowerPage),
      Probe("ok", "", 200, "", MentionPage),
      Probe("http401", "", 401, "", PowerPage),
      Probe("http401", "", 401, "ClientError", <<>>),
      Probe("http_error", "", 500, "", PowerPage),
      Probe("http_error", "", 404, "", OtherPage),
      Probe("no_power_var", "", 200, "", OtherPage),
      Probe("no_power_var", "", 200, "", <<>>),
      Probe("no_power_var", "", 200, "", TruncatedPage),
      Probe("client_error", "ClientError", 200, "", PowerPage),
      Probe("client_error", "", 200, "ClientError", PowerPage),
      Probe("other", "TimeoutError", 200, "", PowerPage),
      Probe("other", "", 200, "UnicodeDecodeError", PowerPage) }

Credentials ==
    [username : {"admin", "u"}, password : {"admin", "p"},
     scan_interval : {MIN_SCAN_INTERVAL, MAX_SCAN_INTERVAL}]

EntryData(host) ==
    [host |-> host, username |-> "admin", password |-> "admin",
     scan_interval |-> DEFAULT_SCAN_INTERVAL]

UserInputs ==
    { Merged([host |-> "h1"], c) : c \in Credentials }

FlowInputs ==
    { [step |-> "user", submitted |-> s, user_input |-> ui, entries |-> es,
       probe |-> p] :
        s \in BOOLEAN, ui \in UserInputs,
        es \in {{}, {EntryData("h1")}, {EntryData("h2")}}, p \in Probes }
    \cup
    { [step |-> "init", submitted |-> s, user_input |-> c,
       entries |-> {EntryData("h1"), EntryData("h2")},
       config_entry |-> EntryData("h1"), probe |-> p] :
        s \in BOOLEAN, c \in Credentials, p \in Probes }

InitFlow ==
    /\ Constructed
    /\ scan_interval = DEFAULT_SCAN_INTERVAL
    /\ request = NoRequest
    /\ NotAdded
    /\ argument \in FlowInputs
    /\ returned = NotCalled
    /\ NoTicks

AsyncStepUser ==
    /\ returned.raises = "NotCalled"
    /\ argument.step = "user"
    /\ returned' = Returns(StepUser(argument))
    /\ UNCHANGED <<coordinator_vars, timing_vars, entity_vars, argument,
                   overlap_vars>>

AsyncStepInit ==
    /\ returned.raises = "NotCalled"
    /\ argument.step = "init"
    /\ returned' = Returns(StepInit(argument))
    /\ UNCHANGED <<coordinator_vars, timing_vars, entity_vars, argument,
                   overlap_vars>>

NextFlow == AsyncStepUser \/ AsyncStepInit

SpecFlow == InitFlow /\ [][NextFlow]_vars

(***************************************************************************)
(* Ticks that overlap on the event loop.  A tick is suspended at its two   *)
(* awaits: session.get, which ends with a status or an exception, and      *)
(* response.text(), which ends with the body or an exception.  Everything  *)
(* a tick does to the attributes of the coordinator comes after the last   *)
(* await it reaches and reads the attributes as they are then, so it is    *)
(* one step of the event loop.  TickEffect is that step as a function of   *)
(* the attributes; serial keeps the attributes with which the ticks of the *)
(* current round began and the effects applied since, in order.            *)
(***************************************************************************)
TickEffect(s, o, body, t) ==
    IF Branch(o) = "parse"
    THEN LET r == RecordSuccess(s.consecutive_failures, s.is_available)
             p == ParseStatusPage(body, s.energy_cache, s.wifi_info_cache,
                                  s.device_info_cache, s.last_wifi_update,
                                  s.last_device_info_update, t)
         IN [state |-> [consecutive_failures |-> r.consecutive_failures,
                        is_available |-> r.is_available,
                        energy_cache |-> p.energy_cache,
                        wifi_info_cache |-> p.wifi_info_cache,
                        device_info_cache |-> p.device_info_cache,
                        last_wifi_update |-> p.last_wifi_update,
                        last_device_info_update |-> p.last_device_info_update],
             result |-> p.result]
    ELSE LET h == HandleFailure(s.consecutive_failures + 1, s.is_available,
                                s.energy_cache, s.device_info_cache,
                                s.wifi_info_cache)
         IN [state |-> [consecutive_failures |-> s.consecutive_failures + 1,
                        is_available |-> h.is_available,
                        energy_cache |-> h.energy_cache,
                        wifi_info_cache |-> h.wifi_info_cache,
                        device_info_cache |-> h.device_info_cache,
                        last_wifi_update |-> s.last_wifi_update,
                        last_device_info_update |-> s.last_device_info_update],
             result |-> h.result]

AfterAwaitStale(atStart, atResume) == atStart

AfterAwait(atStart, atResume) == atResume

Suspended(i) == in_flight[i].pc \in {"get", "text"}

StartTick(i) ==
    /\ in_flight[i].pc = "idle"
    /\ in_flight' = [in_flight EXCEPT ![i] = [pc |-> "get", seen |-> Attributes]]
    /\ serial' = [serial EXCEPT !.overlapped =
                      @ \/ \E j \in TickIds \ {i} : Suspended(j)]
    /\ UNCHANGED <<coordinator_vars, timing_vars, entity_vars, function_vars>>

Complete(i, o, body) ==
    \E e \in {TickEffect(AfterAwait(in_flight[i].seen, Attributes),
                          o, body, now)} :
       /\ o # "Success" => consecutive_failures < MaxFailures
       /\ consecutive_failures' = e.state.consecutive_failures
       /\ is_available' = e.state.is_available
       /\ energy_cache' = e.state.energy_cache
       /\ wifi_info_cache' = e.state.wifi_info_cache
       /\ device_info_cache' = e.state.device_info_cache
       /\ last_wifi_update' = e.state.last_wifi_update
       /\ last_device_info_update' = e.state.last_device_info_update
       /\ data' = e.result
       /\ raised' = FALSE
       /\ History(o, body)
       /\ failures_since_success' =
              IF o = "Success" THEN 0 ELSE failures_since_success + 1
       /\ cached_at_success' =
              IF o = "Success" THEN e.state.energy_cache ELSE cached_at_success
       /\ in_flight' = [in_flight EXCEPT ![i].pc = "done"]
       /\ serial' = [serial EXCEPT !.applied =
                         Append(@, [outcome |-> o, body |-> body, time |-> now])]
       /\ UNCHANGED <<now, advances, timing_vars, entity_vars, function_vars>>

GetEnds(i, o) ==
    /\ in_flight[i].pc = "get"
    /\ IF o = "Success"
       THEN /\ in_flight' = [in_flight EXCEPT ![i].pc = "text"]
            /\ UNCHANGED <<coordinator_vars, timing_vars, entity_vars,
                           function_vars, serial>>
       ELSE Complete(i, o, NoBody)

TextEnds(i, o, body) ==
    /\ in_flight[i].pc = "text"
    /\ Complete(i, o, IF o = "Success" THEN body ELSE NoBody)

TextOutcomes == {"Success", "Timeout", "OtherTransportError", "Unexpected"}

NextRound ==
    /\ \A i \in TickIds : in_flight[i].pc = "done"
    /\ in_flight' = [i \in TickIds |-> [pc |-> "idle", seen |-> Attributes]]
    /\ serial' = [base |-> Attributes, applied |-> <<>>, overlapped |-> FALSE]
    /\ UNCHANGED <<coordinator_vars, timing_vars, entity_vars, function_vars>>

NextOverlap ==
    \/ \E i \in TickIds : StartTick(i)
    \/ \E i \in TickIds, o \in FailureOutcomes \cup {"Success"} : GetEnds(i, o)
    \/ \E i \in TickIds, o \in TextOutcomes, body \in EntryBodies :
          TextEnds(i, o, body)
    \/ NextRound

SpecOverlap == Init /\ [][NextOverlap]_vars

(***************************************************************************)
(* Properties.                                                             *)
(***************************************************************************)
FailureTick == outcome \in FailureOutcomes
SuccessTick == outcome = "Success"

\* C1: once three or more consecutive ticks have failed with no Success in
\* between, the tracker is Unavailable, and it stays so on every further
\* failure until the next Success.
C1_UnavailableAfterThreeFailures ==
    failures_since_success >= 3 => is_available = FALSE

C1_Witness ==
    /\ FailureTick
    /\ failures_since_success = 3
    /\ before.is_available = TRUE
    /\ is_available = FALSE

\* C2: a failure tick that leaves consecutive_failures below 3 does not
\* change the availability state of the tracker.
C2_GlitchKeepsAvailability ==
    [][(/\ failures_since_success' = failures_since_success + 1
        /\ outcome' \in FailureOutcomes
        /\ consecutive_failures' < 3)
       => is_available' = is_available]_vars

C2_Witness ==
    /\ FailureTick
    /\ consecutive_failures = 2
    /\ before.is_available = TRUE
    /\ is_available = TRUE

\* C3: after every Success tick consecutive_failures is 0 and the tracker is
\* Available, whatever the state before; one Success leaves Unavailable.
C3_SuccessResetsTracker ==
    SuccessTick => (consecutive_failures = 0 /\ is_available = TRUE)

C3_Witness ==
    /\ SuccessTick
    /\ before.consecutive_failures >= 3
    /\ before.is_available = FALSE
    /\ consecutive_failures = 0
    /\ is_available = TRUE

\* C4: a failure tick that leaves consecutive_failures below 3 publishes the
\* power and the energy counters cached by the last Success tick, with
\* available = true.
C4_GlitchServesCachedValues ==
    (FailureTick /\ consecutive_failures < 3) =>
        /\ data.current_power = cached_at_success.current_power
        /\ data.today_energy = cached_at_success.today_energy
        /\ data.total_energy = cached_at_success.total_energy
        /\ data.available = TRUE

C4_Witness ==
    /\ FailureTick
    /\ consecutive_failures = 2
    /\ failures_since_success = 2
    /\ cached_at_success.current_power = 1500
    /\ data.current_power = 1500
    /\ data.available = TRUE

\* C5: a failure tick that brings or keeps consecutive_failures at 3 or more
\* publishes current_power = 0 and available = false, with the energy
\* counters equal to the cached values.
C5_UnavailableZeroPowerCachedEnergy ==
    (FailureTick /\ consecutive_failures >= 3) =>
        /\ data.current_power = 0
        /\ data.available = FALSE
        /\ data.today_energy = cached_at_success.today_energy
        /\ data.total_energy = cached_at_success.total_energy

C5_Witness ==
    /\ FailureTick
    /\ consecutive_failures >= 3
    /\ cached_at_success.current_power > 0
    /\ data.current_power = 0
    /\ data.total_energy = 1000
    /\ data.today_energy = 42

\* C6: the cached and published energy counters never decrease from one
\* tick to the next on one coordinator instance.
C6_EnergyNeverDecreases ==
    [][/\ energy_cache'.today_energy >= energy_cache.today_energy
       /\ energy_cache'.total_energy >= energy_cache.total_energy
       /\ (data # NoData =>
              /\ data'.today_energy >= data.today_energy
              /\ data'.total_energy >= data.total_energy)]_vars

\* C7: a Success tick whose body gives an energy counter as 0, empty, the
\* placeholder or unparsable text leaves a positive cached value of that
\* counter in place and publishes it.
GlitchTexts == {<<"0">>, <<"0", ".", "0">>, <<>>, <<"-", "-", "-">>, <<"x">>}

C7_Guarded(var, key) ==
    (/\ outcome' = "Success"
     /\ Search(html', var) \in GlitchTexts
     /\ energy_cache[key] > 0)
    => (/\ energy_cache'[key] = energy_cache[key]
        /\ data'[key] = energy_cache[key])

C7_ZeroGlitchGuard ==
    [][/\ C7_Guarded("webdata_today_e", "today_energy")
       /\ C7_Guarded("webdata_total_e", "total_energy")]_vars

C7_Witness ==
    /\ SuccessTick
    /\ Search(html, "webdata_today_e") = <<"0">>
    /\ energy_cache.today_energy = 42
    /\ data.today_energy = 42

\* C8: a tick never raises: for every outcome class the tick returns a
\* Snapshot dict.
C8_TickNeverRaises ==
    (outcome # "None") =>
        /\ raised = FALSE
        /\ {"current_power", "today_energy", "total_energy", "available"}
              \subseteq DOMAIN data

C8_Witness ==
    /\ outcome = "Unexpected"
    /\ raised = FALSE
    /\ "available" \in DOMAIN data

\* C9: after every failure tick the available flag of the published
\* Snapshot equals the availability state of the tracker.
C9_SnapshotFlagEqualsTracker ==
    FailureTick => data.available = is_available

C11_GlitchServesIdentityAndNetwork ==
    (FailureTick /\ consecutive_failures < 3) =>
        /\ Get(data, "serial_number") = Get(device_info_cache, "serial_number")
        /\ Get(data, "firmware_version") = Get(device_info_cache, "firmware_version")
        /\ Get(data, "module_id") = Get(device_info_cache, "module_id")
        /\ Get(data, "wifi_ssid") = Get(wifi_info_cache, "wifi_ssid")
        /\ Get(data, "wifi_signal") = Get(wifi_info_cache, "wifi_signal")

\* C12: the network cache is written only on a Success tick at which the
\* group was never refreshed or at least 900 s have passed since its last
\* refresh, the identity cache only on a Success tick at which it was never
\* refreshed or at least 86400 s have passed; every other tick keeps both.
C12_Gate(cache, last, interval) ==
    (cache' # cache \/ last' # last) =>
        /\ outcome' = "Success"
        /\ now' = now
        /\ (last = NoTime \/ now - last >= interval)
        /\ last' = now

C12_StalenessGates ==
    [][/\ C12_Gate(wifi_info_cache, last_wifi_update, 900)
       /\ C12_Gate(device_info_cache, last_device_info_update, 86400)]_vars

C12_Witness ==
    /\ SuccessTick
    /\ before.last_wifi_update # NoTime
    /\ last_wifi_update = before.last_wifi_update + 900
    /\ wifi_info_cache # before.wifi_info_cache
    /\ last_device_info_update = before.last_device_info_update
    /\ Search(html, "cover_mid") # None
    /\ Get(device_info_cache, "module_id") = None

\* C13: when a gated group (network or identity) is due and refreshed on a
\* Success tick, each field of the group whose variable is in the body is
\* overwritten with the extracted text, and each field whose variable is
\* absent from the body keeps the value it had in the cache before the tick.
C13_FieldAfterRefresh(cache, old, key, var) ==
    Get(cache, key) = IF Search(html, var) # None
                      THEN Strip(Search(html, var))
                      ELSE Get(old, key)

C13_WifiRefreshed == SuccessTick /\ last_wifi_update # before.last_wifi_update

C13_DeviceInfoRefreshed ==
    SuccessTick /\ last_device_info_update # before.last_device_info_update

C13_RefreshOverwritesOnlyExtracted ==
    /\ C13_WifiRefreshed =>
         /\ C13_FieldAfterRefresh(wifi_info_cache, before.wifi_info_cache,
                                  "wifi_ssid", "cover_sta_ssid")
         /\ C13_FieldAfterRefresh(wifi_info_cache, before.wifi_info_cache,
                                  "wifi_signal", "cover_sta_rssi")
    /\ C13_DeviceInfoRefreshed =>
         /\ C13_FieldAfterRefresh(device_info_cache, before.device_info_cache,
                                  "serial_number", "webdata_sn")
         /\ C13_FieldAfterRefresh(device_info_cache, before.device_info_cache,
                                  "firmware_version", "cover_ver")
         /\ C13_FieldAfterRefresh(device_info_cache, before.device_info_cache,
                                  "module_id", "cover_mid")

C13_Witness ==
    /\ C13_WifiRefreshed
    /\ before.last_wifi_update # NoTime
    /\ Search(html, "cover_sta_ssid") = None
    /\ Get(before.wifi_info_cache, "wifi_ssid") = <<"l", "a", "n">>
    /\ Get(wifi_info_cache, "wifi_ssid") = <<"l", "a", "n">>
    /\ Get(before.wifi_info_cache, "wifi_signal") = <<"4", "0", "%">>
    /\ Get(wifi_info_cache, "wifi_signal") = <<"7", "5", "%">>

\* C14: a failure tick leaves the power/energy cache (cached current_power
\* included), the network cache, the identity cache and both last-update
\* timestamps exactly as they were before the tick.
C14_FailureTickKeepsCaches ==
    FailureTick =>
        /\ energy_cache = before.energy_cache
        /\ wifi_info_cache = before.wifi_info_cache
        /\ device_info_cache = before.device_info_cache
        /\ last_wifi_update = before.last_wifi_update
        /\ last_device_info_update = before.last_device_info_update

C14_Witness ==
    /\ FailureTick
    /\ consecutive_failures = 3
    /\ is_available = FALSE
    /\ data.current_power = 0
    /\ energy_cache.current_power = 1500
    /\ before.energy_cache.current_power = 1500
    /\ Get(wifi_info_cache, "wifi_ssid") = <<"a", "p">>
    /\ last_wifi_update # NoTime

\* C15: every failure class (HTTP 401, other non-200 status, timeout,
\* connection refused, other transport error, unexpected exception) raises
\* consecutive_failures by exactly 1 and yields the Snapshot of the same
\* threshold policy; the tracker and the Snapshot after the tick are a
\* function of the state before the tick alone, not of the failure class.
C15_AfterFailure(prior) ==
    IF prior.consecutive_failures + 1 >= 3
    THEN [consecutive_failures |-> prior.consecutive_failures + 1,
          is_available |-> FALSE,
          data |-> GetEmptyData(prior.energy_cache, prior.device_info_cache)]
    ELSE [consecutive_failures |-> prior.consecutive_failures + 1,
          is_available |-> prior.is_available,
          data |-> GlitchData(prior.energy_cache, prior.device_info_cache,
                              prior.wifi_info_cache)]

C15_AllFailureClassesCountAlike ==
    FailureTick =>
        /\ raised = FALSE
        /\ consecutive_failures = C15_AfterFailure(before).consecutive_failures
        /\ is_available = C15_AfterFailure(before).is_available
        /\ data = C15_AfterFailure(before).data

C15_Witness ==
    /\ outcome = "AuthFailure"
    /\ before.consecutive_failures = 2
    /\ consecutive_failures = 3
    /\ before.is_available = TRUE
    /\ is_available = FALSE
    /\ data.available = FALSE
    /\ before.energy_cache.total_energy = 1000
    /\ data.total_energy = 1000

\* C16: a Success tick whose body lacks one or more of the expected
\* variables is still a Success: consecutive_failures is 0, the tracker is
\* Available, the Snapshot has available = true, and each cached field whose
\* variable is absent from the body keeps the value it had before the tick.
C16_Missing(var) == Search(html, var) = None

C16_KeptIfMissing(var, cache, old, key) ==
    C16_Missing(var) => Get(cache, key) = Get(old, key)

C16_MissingVariablesStillSuccess ==
    (SuccessTick /\ \E var \in ExpectedVars : C16_Missing(var)) =>
        /\ raised = FALSE
        /\ consecutive_failures = 0
        /\ is_available = TRUE
        /\ data.available = TRUE
        /\ C16_Missing("webdata_now_p") =>
             energy_cache.current_power = before.energy_cache.current_power
        /\ C16_Missing("webdata_today_e") =>
             energy_cache.today_energy = before.energy_cache.today_energy
        /\ C16_Missing("webdata_total_e") =>
             energy_cache.total_energy = before.energy_cache.total_energy
        /\ C16_KeptIfMissing("cover_sta_ssid", wifi_info_cache,
                             before.wifi_info_cache, "wifi_ssid")
        /\ C16_KeptIfMissing("cover_sta_rssi", wifi_info_cache,
                             before.wifi_info_cache, "wifi_signal")
        /\ C16_KeptIfMissing("webdata_sn", device_info_cache,
                             before.device_info_cache, "serial_number")
        /\ C16_KeptIfMissing("cover_ver", device_info_cache,
                             before.device_info_cache, "firmware_version")
        /\ C16_KeptIfMissing("cover_mid", device_info_cache,
                             before.device_info_cache, "module_id")

C16_Witness ==
    /\ SuccessTick
    /\ C16_Missing("webdata_now_p")
    /\ C16_Missing("cover_sta_ssid")
    /\ before.consecutive_failures = 3
    /\ before.is_available = FALSE
    /\ consecutive_failures = 0
    /\ is_available = TRUE
    /\ data.available = TRUE
    /\ before.energy_cache.current_power = 1500
    /\ energy_cache.current_power = 1500
    /\ last_wifi_update # before.last_wifi_update
    /\ Get(wifi_info_cache, "wifi_ssid") = <<"a", "p">>

\* C17: on every Success tick whose body contains webdata_now_p, the cached
\* current_power and the Snapshot's current_power are both the normalized
\* value of that reading, also when that value is 0 and the previously
\* cached power was positive.
C17_PowerAlwaysOverwritten ==
    (SuccessTick /\ Search(html, "webdata_now_p") # None) =>
        /\ energy_cache.current_power =
               ParseNumericValue(Search(html, "webdata_now_p"))
        /\ data.current_power =
               ParseNumericValue(Search(html, "webdata_now_p"))

C17_Witness ==
    /\ SuccessTick
    /\ Search(html, "webdata_now_p") = <<"0">>
    /\ before.energy_cache.current_power = 1500
    /\ energy_cache.current_power = 0
    /\ data.current_power = 0

\* C18: every Success tick publishes a Snapshot with available = true whose
\* current_power, today_energy, total_energy, wifi_ssid, wifi_signal,
\* serial_number, firmware_version and module_id equal the contents of the
\* three caches as they stand after the tick.
C18_SuccessSnapshotMirrorsCaches ==
    SuccessTick =>
        /\ data.available = TRUE
        /\ data.current_power = energy_cache.current_power
        /\ data.today_energy = energy_cache.today_energy
        /\ data.total_energy = energy_cache.total_energy
        /\ data.wifi_ssid = Get(wifi_info_cache, "wifi_ssid")
        /\ data.wifi_signal = Get(wifi_info_cache, "wifi_signal")
        /\ data.serial_number = Get(device_info_cache, "serial_number")
        /\ data.firmware_version = Get(device_info_cache, "firmware_version")
        /\ data.module_id = Get(device_info_cache, "module_id")

C18_Witness ==
    /\ SuccessTick
    /\ before.energy_cache.current_power = 0
    /\ data.current_power = 1500
    /\ data.today_energy = 42
    /\ data.total_energy = 1000
    /\ data.wifi_ssid = <<"a", "p">>
    /\ data.wifi_signal = <<"7", "5", "%">>
    /\ data.serial_number = <<"S", "1">>
    /\ data.firmware_version = <<"V", "1">>
    /\ data.module_id = <<"M", "1">>
    /\ energy_cache.current_power = 1500
    /\ Get(device_info_cache, "module_id") = <<"M", "1">>

\* C19: restart during an outage: on a freshly constructed coordinator whose
\* every tick has failed, the Snapshots of the first and second ticks report
\* available = true and the Snapshots of the third and all later ticks
\* report available = false.
C19_NoSuccessYet ==
    /\ last_wifi_update = NoTime
    /\ last_device_info_update = NoTime

C19_RestartDuringOutage ==
    (FailureTick /\ C19_NoSuccessYet) =>
        /\ failures_since_success \in {1, 2} => data.available = TRUE
        /\ failures_since_success >= 3 => data.available = FALSE

C19_Witness ==
    /\ FailureTick
    /\ C19_NoSuccessYet
    /\ failures_since_success = 4
    /\ data.available = FALSE
    /\ is_available = FALSE
    /\ data.total_energy = 0

\* C21: the per-request total timeout is strictly below the minimum poll
\* interval the configuration accepts, so for every accepted scan_interval
\* a request has finished or been abandoned strictly before the next tick
\* is due (scan_interval after the request began).
C21_RequestEndsBeforeNextTickDue ==
    /\ SchemaAccepts(scan_interval)
    /\ request.ended # NoTime =>
           request.ended < request.started + scan_interval

\* C22: in every Snapshot published by any tick, after any sequence of tick
\* outcomes and for every parsed reading, current_power is present and
\* greater than or equal to 0.
C22_PowerPresentAndNonNegative ==
    data # NoData =>
        /\ "current_power" \in DOMAIN data
        /\ data.current_power >= 0

\* C23: the numeric normalizer returns 0.0 and never raises for absent input
\* (None), the empty string, whitespace-only text, the placeholder --- and
\* any text that does not parse as a number; for any other text it returns
\* the parsed number.
C23_NormalizesToZero(t) ==
    \/ t = None
    \/ Strip(t) = <<>>
    \/ Strip(t) = <<"-", "-", "-">>
    \/ ~IsFloatText(Strip(t))

C23_NormalizerTotal ==
    returned # NotCalled =>
        /\ returned.raises = ""
        /\ C23_NormalizesToZero(argument) => returned.value = 0
        /\ ~C23_NormalizesToZero(argument) =>
               returned.value = FloatOf(Strip(argument))

C23_Witness ==
    /\ argument = None
    /\ returned = Returns(0)

\* C24: a Snapshot is always producible: before any Success tick has
\* occurred, every Snapshot (from a failure tick or from the setup fallback)
\* has current_power = 0.0, today_energy = 0.0, total_energy = 0.0 and
\* absent (None) identity and network fields, rather than no Snapshot.
NeverSucceeded ==
    /\ last_wifi_update = NoTime
    /\ last_device_info_update = NoTime
    /\ outcome # "Success"

SetupFellBack == outcome = "FirstRefreshRaised" /\ setup # NoSetup

C24_SnapshotBeforeAnySuccess ==
    (NeverSucceeded /\ (FailureTick \/ SetupFellBack)) =>
        /\ data # NoData
        /\ data.current_power = 0
        /\ data.today_energy = 0
        /\ data.total_energy = 0
        /\ Get(data, "serial_number") = None
        /\ Get(data, "firmware_version") = None
        /\ Get(data, "module_id") = None
        /\ Get(data, "wifi_ssid") = None
        /\ Get(data, "wifi_signal") = None

C24_Witness ==
    /\ SetupFellBack
    /\ NeverSucceeded
    /\ setup.returned = "True"
    /\ data = GetEmptyData(energy_cache, device_info_cache)
    /\ data.available = FALSE
    /\ consecutive_failures = 0

\* C25: setting up a config entry never fails because the inverter is
\* unreachable: for every outcome of the first fetch, async_setup_entry
\* stores the coordinator, forwards the sensor platform and returns True,
\* with coordinator.data holding a Snapshot.
C25_SetupNeverFails ==
    /\ (setup = NoSetup /\ outcome # "None") =>
           ENABLED (\E restored \in RestoredStates : FinishSetup(restored))
    /\ setup # NoSetup =>
           /\ setup.stored
           /\ setup.forwarded
           /\ setup.returned = "True"
           /\ data # NoData
           /\ "available" \in DOMAIN data
           /\ "current_power" \in DOMAIN data

C25_Witness ==
    /\ setup.returned = "True"
    /\ setup.stored
    /\ setup.forwarded
    /\ outcome = "ConnectionRefused"
    /\ failures_since_success = 1
    /\ NeverSucceeded
    /\ data = GlitchData(energy_cache, device_info_cache, wifi_info_cache)

\* C26: reads are idempotent between ticks: with no tick in between,
\* repeated reads of the published values (coordinator.data and each
\* sensor's native_value, including the energy sensors that keep a
\* last-known value) return identical results.
C26_ReadsIdempotent ==
    [][(/\ reads # NoRead
        /\ reads.data = data
        /\ data' = data
        /\ reads' # NoRead)
          => /\ reads'.values = reads.values
             /\ reads'.data = reads.data]_vars

C26_Witness ==
    /\ reads # NoRead
    /\ reads.repeated
    /\ reads.data = data
    /\ data.today_energy = 0
    /\ last_known_value.today_energy = 30
    /\ reads.values.today_energy = 30
    /\ reads.values.status = Txt("Online")

C28_OfflineSensorsUnavailable ==
    (reads # NoRead /\ reads.data.available = FALSE) =>
        \A k \in SensorKeys : reads.available[k] = FALSE

\* C29: the Status field shown to the consumer is Online when the
\* Snapshot's available flag is true and Offline otherwise.
C29_StatusOnlineOrOffline ==
    reads # NoRead =>
        reads.values.status =
            IF reads.data.available THEN Txt("Online") ELSE Txt("Offline")

\* C29 as amended: the Status field is Online when the Snapshot's available
\* flag is true and Offline (Nachtmodus) otherwise.
C29_StatusOnlineOrOfflineNachtmodus ==
    reads # NoRead =>
        reads.values.status =
            IF reads.data.available THEN Txt("Online")
            ELSE Txt("Offline (Nachtmodus)")

C29_Witness ==
    /\ reads # NoRead
    /\ reads.data = data
    /\ data.available = FALSE
    /\ reads.values.status = Txt("Offline (Nachtmodus)")
    /\ before.is_available = TRUE
    /\ is_available = FALSE

\* C30: field extraction does not depend on the order in which the variable
\* assignments appear in the body, tolerates any whitespace around the
\* equals sign, and when a name is assigned more than once uses the first
\* occurrence of that name: whatever the order and the spacing of the
\* statements, the extracted text of a name is the value of the first
\* statement that assigns it, and None when no statement does.
C30_ExtractionByFirstOccurrence ==
    returned # NotCalled =>
        \A name \in ExtractNames :
            returned.value[name] = Search(argument.statements, name)

C30_Witness ==
    /\ returned # NotCalled
    /\ Len(argument.statements) = 2
    /\ argument.statements[1].name = "cover_mid"
    /\ argument.statements[2].name = "cover_mid"
    /\ argument.statements[1].value = <<"2", " ">>
    /\ argument.statements[2].value = <<"1">>
    /\ argument.statements[1].spacing.after_equals = <<"\n">>
    /\ returned.value["cover_mid"] = <<"2", " ">>
    /\ returned.value["cover_ver"] = None

\* C31: on a Success tick whose body lacks webdata_now_p, the Snapshot's
\* current_power is the previously cached current_power and the cache is
\* unchanged; because failure ticks never alter the cached power, that is
\* the power the last Success tick cached, also when an outage published
\* current_power = 0 in between.
C31_MissingPowerServesCachedPower ==
    [][(outcome' = "Success" /\ html' # NoBody
            /\ Search(html', "webdata_now_p") = None)
          => /\ data'.current_power = energy_cache.current_power
             /\ energy_cache'.current_power = energy_cache.current_power
             /\ data'.current_power = cached_at_success.current_power]_vars

C31_Witness ==
    /\ SuccessTick
    /\ Search(html, "webdata_now_p") = None
    /\ before.consecutive_failures = 3
    /\ before.is_available = FALSE
    /\ before.energy_cache.current_power = 1500
    /\ data.current_power = 1500
    /\ energy_cache.current_power = 1500

\* C32: the Snapshot published when the inverter is judged unavailable has
\* wifi_ssid and wifi_signal None whatever the network cache holds, so the
\* two WiFi sensors read Offline; a failure tick leaves the network cache as
\* it was, and the Snapshot of every Success or below-threshold tick serves
\* the cached network fields.
C32_Unavailable(d) == d # NoData /\ ~d.available

C32_WifiHiddenWhileUnavailable ==
    /\ C32_Unavailable(data)
         => data.wifi_ssid = None /\ data.wifi_signal = None
    /\ (reads # NoRead /\ C32_Unavailable(reads.data))
         => /\ reads.values.wifi_ssid = Txt("Offline")
            /\ reads.values.wifi_signal = Txt("Offline")
    /\ FailureTick => wifi_info_cache = before.wifi_info_cache
    /\ ((SuccessTick \/ FailureTick) /\ data # NoData /\ data.available)
         => /\ data.wifi_ssid = Get(wifi_info_cache, "wifi_ssid")
            /\ data.wifi_signal = Get(wifi_info_cache, "wifi_signal")

C32_Witness ==
    /\ reads # NoRead
    /\ C32_Unavailable(reads.data)
    /\ reads.values.wifi_ssid = Txt("Offline")
    /\ SuccessTick
    /\ before.consecutive_failures >= 3
    /\ before.wifi_info_cache = wifi_info_cache
    /\ Get(wifi_info_cache, "wifi_ssid") = <<"a", "p">>
    /\ data.wifi_ssid = <<"a", "p">>
    /\ data.wifi_signal = <<"7", "5", "%">>

\* C33: once the today-energy or total-energy sensor has reported or
\* restored a positive value, every later read of it returns a positive
\* value, and whenever the value of the coordinator is not positive the
\* read returns the last known positive value.
C33_CoordinatorValue(d, key) ==
    IF d # NoData /\ key \in DOMAIN d THEN d[key] ELSE 0

C33_EnergySensorNeverFallsToZero ==
    [][\A key \in {"today_energy", "total_energy"} :
          (/\ last_known_value[key] > 0
           /\ reads' # NoRead
           /\ reads'.data = data
           /\ data' = data)
            => /\ reads'.values[key] > 0
               /\ last_known_value'[key] > 0
               /\ C33_CoordinatorValue(data, key) <= 0
                    => reads'.values[key] = last_known_value[key]]_vars

C33_Witness ==
    /\ setup.returned = "True"
    /\ outcome = "FirstRefreshRaised"
    /\ reads # NoRead
    /\ reads.data = data
    /\ data.available = FALSE
    /\ data.total_energy = 0
    /\ reads.values.total_energy = 990
    /\ last_known_value.total_energy = 990

\* C34: a config entry is created (user step) or its data updated (options
\* step) only when validate_input returned without raising; when validation
\* fails the form is shown again with exactly one error key (invalid_auth
\* for HTTP 401, cannot_connect for a non-200 status, a body lacking
\* webdata_now_p or an aiohttp client error, unknown for any other
\* exception) and no entry data is created or changed.
C34_ExpectedError(label) ==
    CASE label = "http401" -> "invalid_auth"
      [] label \in {"http_error", "no_power_var", "client_error"} ->
             "cannot_connect"
      [] label = "other" -> "unknown"

C34_Validated(a) ==
    /\ a.submitted
    /\ a.step = "user" => \A e \in a.entries : e.host # a.user_input.host

C34_EntryOnlyAfterValidation ==
    returned.raises = "" =>
      LET a == argument
          r == returned.value
      IN /\ (r.entries # a.entries \/ r.result.type = "create_entry")
               => C34_Validated(a) /\ a.probe.label = "ok"
         /\ (C34_Validated(a) /\ a.probe.label # "ok")
               => /\ r.result.type = "form"
                  /\ DOMAIN r.result.errors = {"base"}
                  /\ r.result.errors["base"] = C34_ExpectedError(a.probe.label)
                  /\ r.entries = a.entries
         /\ (C34_Validated(a) /\ a.probe.label = "ok")
               => /\ r.result.type = "create_entry"
                  /\ a.step = "user" => r.entries = a.entries \cup {a.user_input}
                  /\ a.step = "init"
                       => \E e \in r.entries :
                            /\ e.host = a.config_entry.host
                            /\ e.username = a.user_input.username
                            /\ e.password = a.user_input.password
                            /\ e.scan_interval = a.user_input.scan_interval

C34_Witness ==
    /\ returned.raises = ""
    /\ argument.step = "init"
    /\ argument.submitted
    /\ argument.probe.error = "TimeoutError"
    /\ argument.user_input.username = "u"
    /\ returned.value.result.type = "form"
    /\ returned.value.result.errors["base"] = "unknown"
    /\ returned.value.entries = argument.entries

\* C35: tracker invariant between ticks: consecutive_failures is a
\* non-negative integer equal to the number of failure ticks since the last
\* Success tick (or since construction); consecutive_failures >= 3 implies
\* is_available = false; and is_available = false implies that either
\* consecutive_failures >= 3 or no Success tick has occurred since
\* construction.
C35_TrackerInvariant ==
    /\ consecutive_failures \in Nat
    /\ consecutive_failures = failures_since_success
    /\ consecutive_failures >= max_failures_before_unavailable
         => is_available = FALSE
    /\ is_available = FALSE
         => \/ consecutive_failures >= max_failures_before_unavailable
            \/ C19_NoSuccessYet

C35_Witness ==
    /\ FailureTick
    /\ consecutive_failures = 4
    /\ failures_since_success = 4
    /\ is_available = FALSE
    /\ ~C19_NoSuccessYet
    /\ before.consecutive_failures = 3

\* C36: energy cache invariant: in every reachable state the cached
\* today_energy and total_energy are greater than or equal to 0, and once
\* either has become positive it is positive in every later state of the
\* same coordinator instance, for every sequence of tick outcomes and
\* parsed readings (including 0, negative and unparsable readings).
C36_EnergyCacheStaysPositive ==
    /\ [](energy_cache.today_energy >= 0 /\ energy_cache.total_energy >= 0)
    /\ [][\A key \in {"today_energy", "total_energy"} :
             energy_cache[key] > 0 => energy_cache'[key] > 0]_vars

C36_Witness ==
    /\ SuccessTick
    /\ Search(html, "webdata_today_e") = <<"-", "1">>
    /\ Search(html, "webdata_total_e") = <<"x">>
    /\ before.energy_cache.today_energy = 42
    /\ before.energy_cache.total_energy = 1000
    /\ energy_cache.today_energy = 42
    /\ energy_cache.total_energy = 1000

\* C37: when a Success tick finds a gated group due, the last-update
\* timestamp of the group is set to the time of the tick even if none of
\* the fields of the group was extracted from the body, so a field missed
\* on a due tick is not attempted again until a further full interval (900 s
\* for network, 86400 s for identity) has elapsed.
C37_Gate(cache, last, interval) ==
    (outcome' = "Success" /\ now' = now) =>
        /\ (last = NoTime \/ now - last >= interval) => last' = now
        /\ (last # NoTime /\ now - last < interval)
             => (cache' = cache /\ last' = last)

C37_DueTickStampsEvenIfNothingExtracted ==
    [][/\ C37_Gate(wifi_info_cache, last_wifi_update, WIFI_UPDATE_INTERVAL)
       /\ C37_Gate(device_info_cache, last_device_info_update,
                   DEVICE_INFO_UPDATE_INTERVAL)]_vars

C37_Witness ==
    /\ SuccessTick
    /\ NetworkVars \subseteq { html[i].name : i \in 1..Len(html) }
    /\ before.wifi_info_cache = EmptyDict
    /\ before.last_wifi_update # NoTime
    /\ now - before.last_wifi_update = 450
    /\ wifi_info_cache = EmptyDict
    /\ last_wifi_update = before.last_wifi_update
    /\ data.wifi_ssid = None

\* C38: if two ticks for the same coordinator overlap on the event loop,
\* their effects are serializable: each tick changes the tracker and the
\* caches in one step after its last await, so the tracker and cache state
\* equals that of running the outcomes one after the other in some order,
\* and no failure increment is lost or counted twice.
RECURSIVE C38_SerialRun(_, _)
C38_SerialRun(s, effects) ==
    IF effects = <<>> THEN s
    ELSE C38_SerialRun(TickEffect(s, Head(effects).outcome, Head(effects).body,
                              Head(effects).time).state,
                   Tail(effects))

C38_Orders(effects) ==
    IF Len(effects) = 2 THEN {effects, <<effects[2], effects[1]>>}
    ELSE {effects}

RECURSIVE C38_FailuresCounted(_, _)
C38_FailuresCounted(count, effects) ==
    IF effects = <<>> THEN count
    ELSE C38_FailuresCounted(IF Head(effects).outcome = "Success" THEN 0
                         ELSE count + 1,
                         Tail(effects))

C38_OverlappingTicksSerializable ==
    /\ \E order \in C38_Orders(serial.applied) :
          Attributes = C38_SerialRun(serial.base, order)
    /\ consecutive_failures =
          C38_FailuresCounted(serial.base.consecutive_failures, serial.applied)

C38_Witness ==
    /\ serial.overlapped
    /\ \A i \in TickIds : in_flight[i].pc = "done"
    /\ Len(serial.applied) = 2
    /\ serial.applied[1].outcome = "Timeout"
    /\ serial.applied[2].outcome = "AuthFailure"
    /\ serial.base.consecutive_failures = 1
    /\ serial.base.is_available = TRUE
    /\ consecutive_failures = 3
    /\ is_available = FALSE

====
